---- MODULE Spec2Model ----
(***************************************************************************)
(* A model of the typing and finalization pipeline of rust-simplicity:     *)
(* Program::from_untyped_nodes (src/src/program.rs) and type_check with    *)
(* its union-find unifier (src/src/types.rs).                              *)
(*                                                                         *)
(* Rc<RefCell<UnificationVar>> cells are positions of the sequence uv,     *)
(* Arc<FinalType> cells are positions of the sequence arena; Rc::ptr_eq is *)
(* equality of positions.  Vec indices keep the source's numbering from 0: *)
(* element k of a Rust Vec is element k + 1 of the sequence modelling it.  *)
(***************************************************************************)
EXTENDS Integers, Sequences, FiniteSets, TLC

VARIABLES prog, pc, uv, rcs, arena, finals, wit_len, consumed, values, ret, result, root

vars == <<prog, pc, uv, rcs, arena, finals, wit_len, consumed, values, ret, result, root>>

\* ------------------------------------------------------------------ bounds

\* Longest untyped DAG drawn as input.
MaxLen == 3

\* Longest untyped DAG drawn as input under SpecDeep.
DeepLen == 4

\* Most bits the input iterator yields after the program's terms.
MaxStream == 3
\* Most unification variables of a forest built call by call.
MaxVars == 4
\* Most nodes of a long program.
MaxWide == 62

Max(a, b) == IF a >= b THEN a ELSE b

\* F applied to the value of e, which is computed once.
Eval(e, F(_)) == CHOOSE r \in {F(x) : x \in {e}} : TRUE

\* ------------------------------------------------------------------- terms

NoCmr == [tag |-> "none", kids |-> <<>>]

HiddenCmr == [tag |-> "h1", kids |-> <<>>]

Term(op, i, j) == [op |-> op, i |-> i, j |-> j, cmr |-> NoCmr, src |-> "One", tgt |-> "One"]

HiddenTerm(h) == [op |-> "Hidden", i |-> 0, j |-> 0, cmr |-> h, src |-> "One", tgt |-> "One"]

LeafTerm(op, s, t) == [op |-> op, i |-> 0, j |-> 0, cmr |-> NoCmr, src |-> s, tgt |-> t]

UnaryOps == {"InjL", "InjR", "Take", "Drop"}

BinaryOps == {"Comp", "Case", "Pair", "Disconnect"}

\* The extension and jet leaves of the input alphabet, by the names of their
\* source and target types.
ExtLeaves == {LeafTerm("Ext", "Word256Word32", "One")}

JetLeaves == {LeafTerm("Jet", "Word32", "SWord32")}

Leaves ==
    {Term("Iden", 0, 0), Term("Unit", 0, 0), Term("Witness", 0, 0), Term("Fail", 0, 0),
     HiddenTerm(HiddenCmr)} \cup ExtLeaves \cup JetLeaves

\* The terms the decoder can put at position k (from 0): every back-reference
\* is at least 1 and at most k.
TermsAt(k) ==
    Leaves
    \cup {Term(op, i, 0) : op \in UnaryOps, i \in 1..k}
    \cup {Term(op, ij[1], ij[2]) : op \in BinaryOps, ij \in (1..k) \X (1..k)}

\* ------------------------------------------------- unification variables

\* enum Type: a constructor and two child variables.
Type(ty, a, b) == [ty |-> ty, a |-> a, b |-> b]

TypeUnit == Type("Unit", 0, 0)

\* struct UnificationVar { var, rank }, enum Variable flattened into it.
Variable(var, ty, occ, parent, fin, rank) ==
    [var |-> var, ty |-> ty.ty, a |-> ty.a, b |-> ty.b, occ |-> occ,
     parent |-> parent, fin |-> fin, rank |-> rank]

free == Variable("Free", Type("None", 0, 0), FALSE, 0, 0, 0)

concrete(ty) == Variable("Bound", ty, FALSE, 0, 0, 0)

Bound(ty, rank) == Variable("Bound", ty, FALSE, 0, 0, rank)

EqualTo(parent, rank) == Variable("EqualTo", Type("None", 0, 0), FALSE, parent, 0, rank)

Finalized(fin, rank) == Variable("Finalized", Type("None", 0, 0), FALSE, 0, fin, rank)

TypeOf(v) == Type(v.ty, v.a, v.b)

\* The result of a fallible step on the forest.
Res(f, err) == [uv |-> f, err |-> err]

Ok(f) == Res(f, "none")

\* r?, then F on the forest r leaves.
AndThen(r, F(_)) == CHOOSE y \in {IF x.err # "none" THEN x ELSE F(x.uv) : x \in {r}} : TRUE

\* A find_root that follows no parent.
find_no_root(f, node) == [uv |-> f, root |-> node]

\* The variable at the end of node's parent chain.
RECURSIVE RootOfVar(_, _)
RootOfVar(f, v) == IF f[v].var = "EqualTo" THEN RootOfVar(f, f[v].parent) ELSE v

RECURSIVE find_root(_, _)
find_root(f, node) ==
    IF f[node].var # "EqualTo" THEN [uv |-> f, root |-> node]
    ELSE Eval(IF f[f[node].parent].var = "EqualTo"
              THEN [f EXCEPT ![node].parent = f[f[node].parent].parent]
              ELSE f,
              LAMBDA f2 : find_root(f2, f[node].parent))

\* A union that leaves the ranks alone: beta is linked below alpha as given.
union_unranked(f1, alpha0, beta0) ==
    [uv |-> [f1 EXCEPT ![beta0] = EqualTo(alpha0, f1[beta0].rank)],
     alpha |-> alpha0,
     be_var |-> f1[beta0]]

\* unify once both representatives are found and told apart: the ranks, then
\* beta becomes EqualTo(alpha); be_var is what beta held.
union(f1, alpha0, beta0) ==
    LET swap == f1[alpha0].rank < f1[beta0].rank
        alpha == IF swap THEN beta0 ELSE alpha0
        beta == IF swap THEN alpha0 ELSE beta0
    IN  [uv |-> [f1 EXCEPT ![alpha].rank = IF f1[alpha0].rank = f1[beta0].rank
                                           THEN @ + 1 ELSE @,
                           ![beta] = EqualTo(alpha, f1[beta].rank)],
         alpha |-> alpha,
         be_var |-> f1[beta]]

\* A link that joins two classes only when one of them is free: two bound
\* classes are left apart, and what beta holds is handed on.
link_lazy(f, alpha0, beta0) ==
    LET ra == RootOfVar(f, alpha0)
        rb == RootOfVar(f, beta0)
    IN  IF ra = rb THEN [uv |-> f, alpha |-> ra, be_var |-> free]
        ELSE IF f[ra].var = "Bound" /\ f[rb].var = "Bound"
             THEN [uv |-> f, alpha |-> ra, be_var |-> f[rb]]
             ELSE union(f, ra, rb)

\* Lines 269-288 of unify: the two find_root and, for two classes, their
\* union; for one class nothing is left to bind.
link(f, alpha0, beta0) ==
    Eval(find_root(f, alpha0), LAMBDA ra :
    Eval(find_root(ra.uv, beta0), LAMBDA rb :
         IF ra.root = rb.root
         THEN [uv |-> rb.uv, alpha |-> ra.root, be_var |-> free]
         ELSE union(rb.uv, ra.root, rb.root)))

RECURSIVE unify(_, _, _)

\* A bind that accepts whatever the representative is bound to.
bind_lax(f, rcvar, ty) ==
    IF f[rcvar].var = "Free"
    THEN Ok([f EXCEPT ![rcvar] = Bound(ty, f[rcvar].rank)])
    ELSE Ok(f)

bind(f, rcvar, ty) ==
    CASE f[rcvar].var = "Free" ->
            Ok([f EXCEPT ![rcvar] = Bound(ty, f[rcvar].rank)])
      [] f[rcvar].var = "EqualTo" -> Res(f, "PanicUnreachable")
      [] f[rcvar].var = "Finalized" -> Res(f, "PanicUnreachable")
      [] f[rcvar].var = "Bound" /\ f[rcvar].ty = "Unit" /\ ty.ty = "Unit" -> Ok(f)
      [] f[rcvar].var = "Bound" /\ f[rcvar].ty = ty.ty /\ ty.ty # "Unit" ->
            AndThen(unify(f, f[rcvar].a, ty.a),
                    LAMBDA g : unify(g, f[rcvar].b, ty.b))
      [] OTHER -> Res(f, "TypeCheck")

\* unify: after the link of the two classes, the type that beta held is
\* bound to alpha (lines 289-296).
unify(f, alpha0, beta0) ==
    CHOOSE res \in {
        CASE u.be_var.var = "Free" -> Ok(u.uv)
          [] u.be_var.var = "Bound" -> bind(u.uv, u.alpha, TypeOf(u.be_var))
          [] OTHER -> Res(u.uv, "PanicUnreachable")
        : u \in {link(f, alpha0, beta0)}} : TRUE

\* unify with its calls counted: the forest and the error of unify, and the
\* number of calls of unify made, the first included. At most fuel calls are
\* followed; a call that would be one more ends the count with "Diverged".
RECURSIVE unify_calls(_, _, _, _)
unify_calls(f, alpha0, beta0, fuel) ==
    IF fuel = 0 THEN [uv |-> f, err |-> "Diverged", calls |-> 0]
    ELSE CHOOSE res \in {
        IF /\ u.be_var.var = "Bound" /\ u.uv[u.alpha].var = "Bound"
           /\ u.uv[u.alpha].ty = u.be_var.ty /\ u.be_var.ty # "Unit"
        THEN CHOOSE r2 \in {
                IF r1.err # "none" THEN [r1 EXCEPT !.calls = @ + 1]
                ELSE CHOOSE r3 \in {
                        [r EXCEPT !.calls = @ + r1.calls + 1]
                        : r \in {unify_calls(r1.uv, u.uv[u.alpha].b, u.be_var.b,
                                             fuel - 1 - r1.calls)}} : TRUE
                : r1 \in {unify_calls(u.uv, u.uv[u.alpha].a, u.be_var.a, fuel - 1)}} : TRUE
        ELSE CHOOSE r2 \in {
                [uv |-> r.uv, err |-> r.err, calls |-> 1]
                : r \in {CASE u.be_var.var = "Free" -> Ok(u.uv)
                           [] u.be_var.var = "Bound" -> bind(u.uv, u.alpha, TypeOf(u.be_var))
                           [] OTHER -> Res(u.uv, "PanicUnreachable")}} : TRUE
        : u \in {link(f, alpha0, beta0)}} : TRUE

\* ---------------------------------------------------- pre-built skeletons

two_0 == 1
two_1 == 2
two_2 == 3
two_4 == 4
two_8 == 5
two_16 == 6
two_32 == 7
two_64 == 8
two_128 == 9
two_256 == 10
two_256_32 == 11
two_512 == 12

\* A skeleton whose two_16 is a free variable, not a Product of two two_8.
SkeletonLoose ==
    << concrete(TypeUnit),
       concrete(Type("Sum", two_0, two_0)),
       concrete(Type("Product", two_1, two_1)),
       concrete(Type("Product", two_2, two_2)),
       concrete(Type("Product", two_4, two_4)),
       free,
       concrete(Type("Product", two_16, two_16)),
       concrete(Type("Product", two_32, two_32)),
       concrete(Type("Product", two_64, two_64)),
       concrete(Type("Product", two_128, two_128)),
       concrete(Type("Product", two_256, two_32)),
       concrete(Type("Product", two_256, two_256)) >>

Skeleton ==
    << concrete(TypeUnit),
       concrete(Type("Sum", two_0, two_0)),
       concrete(Type("Product", two_1, two_1)),
       concrete(Type("Product", two_2, two_2)),
       concrete(Type("Product", two_4, two_4)),
       concrete(Type("Product", two_8, two_8)),
       concrete(Type("Product", two_16, two_16)),
       concrete(Type("Product", two_32, two_32)),
       concrete(Type("Product", two_64, two_64)),
       concrete(Type("Product", two_128, two_128)),
       concrete(Type("Product", two_256, two_32)),
       concrete(Type("Product", two_256, two_256)) >>

type_from_name(name) ==
    CASE name = "One" -> TypeUnit
      [] name = "Word32" -> Type("Product", two_16, two_16)
      [] name = "SWord32" -> Type("Sum", two_0, two_32)
      [] name = "TwoTimesWord32" -> Type("Product", two_1, two_32)
      [] name = "Word64" -> Type("Product", two_32, two_32)
      [] name = "SWord64" -> Type("Sum", two_0, two_64)
      [] name = "Word64TimesTwo" -> Type("Product", two_64, two_1)
      [] name = "Word128" -> Type("Product", two_64, two_64)
      [] name = "Word256" -> Type("Product", two_128, two_128)
      [] name = "SWord256" -> Type("Sum", two_0, two_256)
      [] name = "Word256Word32" -> Type("Product", two_256, two_32)
      [] name = "SWord256Word32" -> Type("Sum", two_0, two_256_32)
      [] name = "Word256Word512" -> Type("Product", two_256, two_512)

\* ------------------------------------------------------------- type_check

\* struct UnificationArrow
UnificationArrow(s, t) == [source |-> s, target |-> t]

\* The place of rcs and of program that type_check reads for the payload i
\* of the node at position idx: rcs[i], program[i].
TcChild(idx_, i) == i

\* Whether vec[i] is in range; vec[i] itself.
InRange(vec, i) == i >= 0 /\ i < Len(vec)

At(vec, i) == vec[i + 1]

\* Rc::new(RefCell::new(..)): the new cell is the last position.
Alloc(f, v) == Append(f, v)

tc_Iden(f, node) == unify(f, node.source, node.target)

tc_Unit(f, node) == bind(f, node.target, TypeUnit)

tc_InjL(f, rcs_, idx_, node, i) ==
    LET c == TcChild(idx_, i)
    IN  IF ~InRange(rcs_, c) THEN Res(f, "PanicIndex")
        ELSE AndThen(unify(f, node.source, At(rcs_, c).source),
                     LAMBDA g : bind(Alloc(g, free), node.target,
                                     Type("Sum", At(rcs_, c).target, Len(g) + 1)))

tc_InjR(f, rcs_, idx_, node, i) ==
    LET c == TcChild(idx_, i)
    IN  IF ~InRange(rcs_, c) THEN Res(f, "PanicIndex")
        ELSE AndThen(unify(f, node.source, At(rcs_, c).source),
                     LAMBDA g : bind(Alloc(g, free), node.target,
                                     Type("Sum", Len(g) + 1, At(rcs_, c).target)))

tc_Take(f, rcs_, idx_, node, i) ==
    LET c == TcChild(idx_, i)
    IN  IF ~InRange(rcs_, c) THEN Res(f, "PanicIndex")
        ELSE AndThen(unify(f, node.target, At(rcs_, c).target),
                     LAMBDA g : bind(Alloc(g, free), node.source,
                                     Type("Product", At(rcs_, c).source, Len(g) + 1)))

tc_Drop(f, rcs_, idx_, node, i) ==
    LET c == TcChild(idx_, i)
    IN  IF ~InRange(rcs_, c) THEN Res(f, "PanicIndex")
        ELSE AndThen(unify(f, node.target, At(rcs_, c).target),
                     LAMBDA g : bind(Alloc(g, free), node.source,
                                     Type("Product", Len(g) + 1, At(rcs_, c).source)))

tc_Comp(f, rcs_, idx_, node, i, j) ==
    LET ci == TcChild(idx_, i)
        cj == TcChild(idx_, j)
    IN  IF ~InRange(rcs_, ci) THEN Res(f, "PanicIndex")
        ELSE AndThen(unify(f, node.source, At(rcs_, ci).source), LAMBDA g1 :
             IF ~InRange(rcs_, cj) THEN Res(g1, "PanicIndex")
             ELSE AndThen(unify(g1, At(rcs_, ci).target, At(rcs_, cj).source), LAMBDA g2 :
                  unify(g2, node.target, At(rcs_, cj).target)))

\* One branch of Case: nothing for a Hidden child, else the child's source is
\* bound to Product(var, var3) and its target unified with the node's.
tc_CaseBranch(f, program, rcs_, node, c, var, var3) ==
    IF ~InRange(program, c) THEN Res(f, "PanicIndex")
    ELSE IF At(program, c).op = "Hidden" THEN Ok(f)
    ELSE IF ~InRange(rcs_, c) THEN Res(f, "PanicIndex")
    ELSE Eval(find_root(f, At(rcs_, c).source), LAMBDA r :
              AndThen(bind(r.uv, r.root, Type("Product", var, var3)), LAMBDA g :
                      unify(g, node.target, At(rcs_, c).target)))

tc_Case(f, program, rcs_, idx_, node, i, j) ==
    LET n == Len(f)
        var1 == n + 1
        var2 == n + 2
        var3 == n + 3
        sum12_var == n + 4
    IN  AndThen(bind(f \o <<free, free, free, free>>, sum12_var,
                     Type("Sum", var1, var2)), LAMBDA g1 :
        AndThen(bind(g1, node.source, Type("Product", sum12_var, var3)), LAMBDA g2 :
        AndThen(tc_CaseBranch(g2, program, rcs_, node, TcChild(idx_, i), var1, var3), LAMBDA g3 :
                tc_CaseBranch(g3, program, rcs_, node, TcChild(idx_, j), var2, var3))))

tc_Pair(f, rcs_, idx_, node, i, j) ==
    LET ci == TcChild(idx_, i)
        cj == TcChild(idx_, j)
    IN  IF ~InRange(rcs_, ci) THEN Res(f, "PanicIndex")
        ELSE AndThen(unify(f, node.source, At(rcs_, ci).source), LAMBDA g1 :
             IF ~InRange(rcs_, cj) THEN Res(g1, "PanicIndex")
             ELSE AndThen(unify(g1, node.source, At(rcs_, cj).source), LAMBDA g2 :
                  bind(g2, node.target,
                       Type("Product", At(rcs_, ci).target, At(rcs_, cj).target))))

tc_Disconnect(f, rcs_, idx_, node, i, j) ==
    LET ci == TcChild(idx_, i)
        cj == TcChild(idx_, j)
        n == Len(f)
        var_a == n + 1
        var_b == n + 2
        var_c == n + 3
        var_d == n + 4
        s_source == n + 5
        s_target == n + 6
        node_target == n + 7
    IN  IF ~InRange(rcs_, ci) THEN Res(f, "PanicIndex")
        ELSE AndThen(unify(f \o <<free, free, free, free,
                                  concrete(Type("Product", two_256, var_a)),
                                  concrete(Type("Product", var_b, var_c)),
                                  concrete(Type("Product", var_b, var_d))>>,
                           At(rcs_, ci).source, s_source), LAMBDA g1 :
             AndThen(unify(g1, At(rcs_, ci).target, s_target), LAMBDA g2 :
             AndThen(unify(g2, node.source, var_a), LAMBDA g3 :
             AndThen(unify(g3, node.target, node_target), LAMBDA g4 :
             IF ~InRange(rcs_, cj) THEN Res(g4, "PanicIndex")
             ELSE AndThen(unify(g4, At(rcs_, cj).source, var_c), LAMBDA g5 :
                  unify(g5, At(rcs_, cj).target, var_d))))))

tc_Leaf(f, node, t) ==
    AndThen(bind(f, node.source, type_from_name(t.src)), LAMBDA g :
            bind(g, node.target, type_from_name(t.tgt)))

\* The body of type_check's first loop for the node at position idx_, the
\* node's two fresh variables being node.source and node.target.
constrain(f, program, rcs_, idx_, node) ==
    LET t == At(program, idx_)
    IN  CASE t.op = "Iden" -> tc_Iden(f, node)
          [] t.op = "Unit" -> tc_Unit(f, node)
          [] t.op = "InjL" -> tc_InjL(f, rcs_, idx_, node, t.i)
          [] t.op = "InjR" -> tc_InjR(f, rcs_, idx_, node, t.i)
          [] t.op = "Take" -> tc_Take(f, rcs_, idx_, node, t.i)
          [] t.op = "Drop" -> tc_Drop(f, rcs_, idx_, node, t.i)
          [] t.op = "Comp" -> tc_Comp(f, rcs_, idx_, node, t.i, t.j)
          [] t.op = "Case" -> tc_Case(f, program, rcs_, idx_, node, t.i, t.j)
          [] t.op = "Pair" -> tc_Pair(f, rcs_, idx_, node, t.i, t.j)
          [] t.op = "Disconnect" -> tc_Disconnect(f, rcs_, idx_, node, t.i, t.j)
          [] t.op = "Witness" -> Ok(f)
          [] t.op = "Hidden" -> Ok(f)
          [] t.op = "Ext" -> tc_Leaf(f, node, t)
          [] t.op = "Jet" -> tc_Leaf(f, node, t)
          [] t.op = "Fail" -> Res(f, "PanicUnimplemented")

\* ------------------------------------------------------------ finalization

\* struct FinalType { ty, bit_width }, the Arc children being arena positions.
FinalType(ty, l, r, w) == [ty |-> ty, l |-> l, r |-> r, bit_width |-> w]

FinalUnit == FinalType("Unit", 0, 0, 0)

\* The width of the wider of two children, without the tag bit of a Sum.
WidthOfWider(w1, w2) == Max(w1, w2)

\* The bit_width stored with a new Sum or Product of two finalized children.
SumWidth(w1, w2) == 1 + Max(w1, w2)

ProductWidth(w1, w2) == w1 + w2

FinalCompound(ty, ar, final1, final2) ==
    FinalType(ty, final1, final2,
              IF ty = "Sum"
              THEN SumWidth(ar[final1].bit_width, ar[final2].bit_width)
              ELSE ProductWidth(ar[final1].bit_width, ar[final2].bit_width))

\* A Unit that would take one bit.
WideUnit == FinalType("Unit", 0, 0, 1)

\* The type a Free variable finalizes to.
FreeDefault == FinalUnit

\* The error of a failed bind.
mismatch_error == "TypeCheck"

\* The error from_var returns when it meets a class it is still finalizing.
occurs_error == "OccursCheck"

\* The result of a finalization: the forest, the arena, the error and the
\* position of the finalized type.
FRes(f, ar, err, fin) == [uv |-> f, arena |-> ar, err |-> err, fin |-> fin]

\* find_root of v and, when its class is a Sum or a Product that passes the
\* occurs check, the setting of occurs_check and find_root of the two
\* children: lines 76-86 and 106-107.
roots(f, v) ==
    Eval(find_root(f, v), LAMBDA r :
         IF r.uv[r.root].var = "Bound" /\ ~r.uv[r.root].occ /\ r.uv[r.root].ty # "Unit"
         THEN Eval(find_root([r.uv EXCEPT ![r.root].occ = TRUE], r.uv[r.root].a), LAMBDA r1 :
              Eval(find_root(r1.uv, r.uv[r.root].b), LAMBDA r2 :
                   [uv |-> r2.uv, root |-> r.root, cell |-> r.uv[r.root],
                    sub1 |-> r1.root, sub2 |-> r2.root]))
         ELSE [uv |-> r.uv, root |-> r.root, cell |-> r.uv[r.root], sub1 |-> 0, sub2 |-> 0])

\* Lines 109-128 and 130-146 for a child sub, a representative, that is not
\* Bound: a Free child is Unit and is not stored in the forest.
from_sub(f, ar, sub) ==
    CASE f[sub].var = "Free" -> FRes(f, Append(ar, FreeDefault), "none", Len(ar) + 1)
      [] f[sub].var = "EqualTo" -> FRes(f, ar, "PanicUnreachable", 0)
      [] f[sub].var = "Finalized" -> FRes(f, ar, "none", f[sub].fin)

\* from_var on the representative p.root, of content p.cell, that is not a Sum
\* or a Product to finalize: lines 79-100.
from_root(p, ar) ==
    CASE p.cell.var = "Finalized" -> FRes(p.uv, ar, "none", p.cell.fin)
      [] p.cell.var = "EqualTo" -> FRes(p.uv, ar, "PanicUnreachable", 0)
      [] p.cell.var = "Free" ->
            FRes([p.uv EXCEPT ![p.root] = Finalized(Len(ar) + 1, p.cell.rank)],
                 Append(ar, FreeDefault), "none", Len(ar) + 1)
      [] p.cell.var = "Bound" /\ p.cell.occ -> FRes(p.uv, ar, occurs_error, 0)
      [] p.cell.var = "Bound" /\ ~p.cell.occ /\ p.cell.ty = "Unit" ->
            FRes([p.uv EXCEPT ![p.root] = Finalized(Len(ar) + 1, p.cell.rank)],
                 Append(ar, FinalUnit), "none", Len(ar) + 1)

\* A finalization of a compound that is returned and not stored: the
\* representative stays Bound, its occurs flag set.
from_compound_unstored(p, d1, d2) ==
    FRes(d2.uv,
         Append(d2.arena, FinalCompound(p.cell.ty, d2.arena, d1.fin, d2.fin)),
         "none", Len(d2.arena) + 1)

\* Lines 148-160: the new Sum or Product of the finalized children d1 and d2,
\* stored in the representative p.root.
from_compound(p, d1, d2) ==
    FRes([d2.uv EXCEPT ![p.root] = Finalized(Len(d2.arena) + 1, p.cell.rank)],
         Append(d2.arena, FinalCompound(p.cell.ty, d2.arena, d1.fin, d2.fin)),
         "none", Len(d2.arena) + 1)

\* FinalType::from_var: p is the representative with its children's, d1 and
\* d2 are the finalized children, a Bound child being finalized by from_var.
RECURSIVE from_var(_, _, _)
from_var(f, ar, v) ==
    CHOOSE res \in {
        IF p.sub1 = 0 THEN from_root(p, ar)
        ELSE CHOOSE r1 \in {
                 IF d1.err # "none" THEN d1
                 ELSE CHOOSE r2 \in {
                          IF d2.err # "none" THEN d2 ELSE from_compound(p, d1, d2)
                          : d2 \in {IF d1.uv[p.sub2].var = "Bound"
                                    THEN from_var(d1.uv, d1.arena, p.sub2)
                                    ELSE from_sub(d1.uv, d1.arena, p.sub2)}} : TRUE
                 : d1 \in {IF p.uv[p.sub1].var = "Bound"
                           THEN from_var(p.uv, ar, p.sub1)
                           ELSE from_sub(p.uv, ar, p.sub1)}} : TRUE
        : p \in {roots(f, v)}} : TRUE

\* struct TypedNode: the node is prog[idx], the types are arena positions.
TypedNode(s, t) == [source_ty |-> s, target_ty |-> t]

\* type_check's second loop from position k on: source_ty, then target_ty of
\* each node, pushed to finals_.
RECURSIVE finalize(_, _, _, _, _)
finalize(f, ar, rcs_, finals_, k) ==
    IF k = Len(rcs_) THEN [uv |-> f, arena |-> ar, err |-> "none", finals |-> finals_]
    ELSE Eval(from_var(f, ar, At(rcs_, k).source), LAMBDA s :
         IF s.err # "none"
         THEN [uv |-> s.uv, arena |-> s.arena, err |-> s.err, finals |-> finals_]
         ELSE Eval(from_var(s.uv, s.arena, At(rcs_, k).target), LAMBDA t :
              IF t.err # "none"
              THEN [uv |-> t.uv, arena |-> t.arena, err |-> t.err, finals |-> finals_]
              ELSE Eval(Append(finals_, TypedNode(s.fin, t.fin)), LAMBDA fs :
                        finalize(t.uv, t.arena, rcs_, fs, k + 1))))

\* -------------------------------------------------------- witness decoding

\* 2^n
RECURSIVE Pow2(_)
Pow2(n) == IF n = 0 THEN 1 ELSE 2 * Pow2(n - 1)

\* The bits b, most significant first, as a number.
RECURSIVE BitsToNat(_)
BitsToNat(b) ==
    IF b = <<>> THEN 0
    ELSE 2 * BitsToNat(SubSeq(b, 1, Len(b) - 1)) + (IF b[Len(b)] THEN 1 ELSE 0)

\* The bit sequences of length n.
RECURSIVE BitSeqs(_)
BitSeqs(n) ==
    IF n = 0 THEN {<<>>}
    ELSE {Append(b, x) : b \in BitSeqs(n - 1), x \in BOOLEAN}

\* encode::decode_natural on the bits the iterator yields: the number read
\* and the bits left, or ok = FALSE when the iterator ends first.
RECURSIVE decode_natural(_)
decode_natural(bits) ==
    IF bits = <<>> THEN [ok |-> FALSE, val |-> 0, rest |-> <<>>]
    ELSE IF ~Head(bits) THEN [ok |-> TRUE, val |-> 1, rest |-> Tail(bits)]
    ELSE Eval(decode_natural(Tail(bits)), LAMBDA m :
              IF ~m.ok \/ Len(m.rest) < m.val
              THEN [ok |-> FALSE, val |-> 0, rest |-> <<>>]
              ELSE [ok |-> TRUE,
                    val |-> Pow2(m.val) + BitsToNat(SubSeq(m.rest, 1, m.val)),
                    rest |-> SubSeq(m.rest, m.val + 1, Len(m.rest))])

\* Value::from_bits_and_type: the bit sequences of at most budget bits that
\* decode to a value of the type at arena position t.  Each is the bits the
\* call consumes; it determines the Value.
RECURSIVE from_bits_and_type(_, _, _)
from_bits_and_type(ar, t, budget) ==
    CASE ar[t].ty = "Unit" -> {<<>>}
      [] ar[t].ty = "Sum" ->
            IF budget = 0 THEN {}
            ELSE {<<FALSE>> \o b : b \in from_bits_and_type(ar, ar[t].l, budget - 1)}
                 \cup {<<TRUE>> \o b : b \in from_bits_and_type(ar, ar[t].r, budget - 1)}
      [] ar[t].ty = "Product" ->
            UNION {{b1 \o b2 : b2 \in from_bits_and_type(ar, ar[t].r, budget - Len(b1))}
                   : b1 \in from_bits_and_type(ar, ar[t].l, budget)}

\* The map over the typed nodes from position k on: a Witness leaf reads its
\* value from the iterator, which has yielded used bits so far and may end at
\* any read; every other node is copied.  The set of the possible outcomes.
RECURSIVE read_witnesses(_, _, _, _, _, _)
read_witnesses(program, typed, ar, values_, used, k) ==
    IF k = Len(program)
    THEN {[values |-> values_, consumed |-> used, err |-> "none"]}
    ELSE IF At(program, k).op # "Witness"
    THEN Eval(Append(values_, <<>>), LAMBDA vs :
              read_witnesses(program, typed, ar, vs, used, k + 1))
    ELSE LET ty == At(typed, k).target_ty
         IN  (IF ar[ty].bit_width > 0
              THEN {[values |-> values_, consumed |-> used, err |-> "EndOfStream"]}
              ELSE {})
             \cup UNION {UNION {read_witnesses(program, typed, ar, vs, used + Len(b), k + 1)
                                : vs \in {Append(values_, b)}}
                         : b \in from_bits_and_type(ar, ty, MaxStream - used)}

\* ------------------------------------------------------------ cached data

\* The place of program that the DAG finalizer reads for the payload i of the
\* node at position idx: program[idx - i].
PnChild(idx_, i) == idx_ - i

Cmr(tag, kids) == [tag |-> tag, kids |-> kids]

\* cmr::tag::*(), Cmr::update_1 and Cmr::update as an injective hash.
tag(name) == Cmr(name, <<>>)

update_1(t, c) == Cmr(t.tag, <<c>>)

update(t, c1, c2) == Cmr(t.tag, <<c1, c2>>)

\* The CMR the registry gives for an extension or jet leaf.
leaf_cmr(t) == Cmr(t.op, <<tag(t.src), tag(t.tgt)>>)

PanicCmr == tag("panic")

\* A CMR for Hidden(h) that hashes h under a tag of its own.
tagged_hidden_cmr(h) == update_1(tag("hidden"), h)

\* The CMR of a Hidden node carrying h.
hidden_cmr(h) == h

\* The children of Disconnect(i, j) that enter its CMR.
disconnect_cmr(program, idx_, i, j) ==
    update_1(tag("disconnect"), At(program, PnChild(idx_, i)).cmr)

\* Whether the back-references of node are in range of program[..idx].
refs_in_range(program, node, idx_) ==
    CASE node.op \in UnaryOps -> InRange(program, PnChild(idx_, node.i))
      [] node.op \in BinaryOps ->
            InRange(program, PnChild(idx_, node.i)) /\ InRange(program, PnChild(idx_, node.j))
      [] OTHER -> TRUE

compute_cmr(program, node, idx_) ==
    LET ci == At(program, PnChild(idx_, node.i)).cmr
        cj == At(program, PnChild(idx_, node.j)).cmr
    IN  CASE node.op = "Iden" -> tag("iden")
          [] node.op = "Unit" -> tag("unit")
          [] node.op = "InjL" -> update_1(tag("injl"), ci)
          [] node.op = "InjR" -> update_1(tag("injr"), ci)
          [] node.op = "Take" -> update_1(tag("take"), ci)
          [] node.op = "Drop" -> update_1(tag("drop"), ci)
          [] node.op = "Comp" -> update(tag("comp"), ci, cj)
          [] node.op = "Case" -> update(tag("case"), ci, cj)
          [] node.op = "Pair" -> update(tag("pair"), ci, cj)
          [] node.op = "Disconnect" -> disconnect_cmr(program, idx_, node.i, node.j)
          [] node.op = "Witness" -> tag("witness")
          [] node.op = "Fail" -> PanicCmr
          [] node.op = "Hidden" -> hidden_cmr(node.cmr)
          [] node.op = "Ext" -> leaf_cmr(node)
          [] node.op = "Jet" -> leaf_cmr(node)

\* A bound that counts no cell at all.
no_extra_cells(program, ar, node, idx_, witness_target_width) == 0

compute_extra_cells_bound(program, ar, node, idx_, witness_target_width) ==
    LET pi == At(program, PnChild(idx_, node.i))
        pj == At(program, PnChild(idx_, node.j))
    IN  CASE node.op \in {"Iden", "Unit", "Hidden", "Ext", "Jet", "Fail"} -> 0
          [] node.op \in UnaryOps -> pi.extra_cells_bound
          [] node.op = "Comp" ->
                ar[pi.target_ty].bit_width
                + Max(pi.extra_cells_bound, pj.extra_cells_bound)
          [] node.op \in {"Case", "Pair"} ->
                Max(pi.extra_cells_bound, pj.extra_cells_bound)
          [] node.op = "Disconnect" ->
                ar[pi.source_ty].bit_width + ar[pi.target_ty].bit_width
                + Max(pi.extra_cells_bound, pj.extra_cells_bound)
          [] node.op = "Witness" -> witness_target_width

compute_frame_count_bound(program, node, idx_) ==
    LET pi == At(program, PnChild(idx_, node.i))
        pj == At(program, PnChild(idx_, node.j))
    IN  CASE node.op \in {"Iden", "Unit", "Witness", "Hidden", "Ext", "Jet", "Fail"} -> 0
          [] node.op \in UnaryOps -> pi.frame_count_bound
          [] node.op = "Comp" -> 1 + Max(pi.frame_count_bound, pj.frame_count_bound)
          [] node.op \in {"Case", "Pair"} ->
                Max(pi.frame_count_bound, pj.frame_count_bound)
          [] node.op = "Disconnect" ->
                2 + Max(pi.frame_count_bound, pj.frame_count_bound)

\* struct ProgramNode; its node is prog[index], with values[index] for a Witness.
ProgramNode(index, cmr, s, t, cells, frames) ==
    [index |-> index, cmr |-> cmr, source_ty |-> s, target_ty |-> t,
     extra_cells_bound |-> cells, frame_count_bound |-> frames]

\* The body of the loop that builds the program's nodes.
final_node(program, ar, node, typed, index) ==
    ProgramNode(index,
                compute_cmr(program, node, index),
                typed.source_ty, typed.target_ty,
                compute_extra_cells_bound(program, ar, node, index,
                                          ar[typed.target_ty].bit_width),
                compute_frame_count_bound(program, node, index))

\* The loop that builds the program's nodes, from position k on.
RECURSIVE cached(_, _, _, _, _)
cached(program, typed, ar, ret_, k) ==
    IF k = Len(program) THEN [ret |-> ret_, err |-> "none"]
    ELSE IF At(program, k).op = "Fail" THEN [ret |-> ret_, err |-> "PanicUnimplemented"]
    ELSE IF ~refs_in_range(ret_, At(program, k), k) THEN [ret |-> ret_, err |-> "PanicIndex"]
    ELSE Eval(Append(ret_, final_node(ret_, ar, At(program, k), At(typed, k), k)),
              LAMBDA r : cached(program, typed, ar, r, k + 1))

\* What root_node has returned: nothing yet, a panic, or the node nodes[index].
NoRoot == [st |-> "none", index |-> 0]

\* &self.nodes[self.nodes.len() - 1]: on no node the subtraction overflows
\* (a panic with overflow checks) or wraps to usize::MAX (an index out of
\* bounds, a panic too).
root_node(nodes) ==
    IF Len(nodes) = 0
    THEN [st |-> "Panic", index |-> 0]
    ELSE [st |-> "Node", index |-> At(nodes, Len(nodes) - 1).index]

\* usize, 64 bits, as Limbs limbs of which each holds a number below Limb.
Limb == 65536

Limbs == 4

\* The word of a number below Limb * Limb.
ToWord(n) == [i \in 1..Limbs |-> CASE i = 1 -> n % Limb [] i = 2 -> n \div Limb [] OTHER -> 0]

\* The carry into limb i of a + b.
RECURSIVE CarryInto(_, _, _)
CarryInto(a, b, i) ==
    IF i = 1 THEN 0 ELSE (a[i - 1] + b[i - 1] + CarryInto(a, b, i - 1)) \div Limb

\* a + b in a usize: the sum modulo 2^64, and the carry out of the word.
AddWord(a, b) ==
    [word |-> [i \in 1..Limbs |-> (a[i] + b[i] + CarryInto(a, b, i)) % Limb],
     carry |-> CarryInto(a, b, Limbs + 1)]

\* The second node of a long program.
WideLeaves ==
    JetLeaves \cup ExtLeaves \cup {Term("Unit", 0, 0), Term("Iden", 0, 0), Term("Witness", 0, 0)}

\* ----------------------------------------------------------------- actions

Init ==
    /\ prog = <<>>
    /\ pc = "type_check"
    /\ uv = Skeleton
    /\ rcs = <<>>
    /\ arena = <<>>
    /\ finals = <<>>
    /\ wit_len = 0
    /\ consumed = 0
    /\ values = <<>>
    /\ ret = <<>>
    /\ result = "running"
    /\ root = NoRoot

Stop(r) ==
    /\ pc' = "done"
    /\ result' = r

\* type_check on the empty program: Ok(vec![]).
TypeCheckEmpty ==
    /\ pc = "type_check"
    /\ Len(prog) = 0
    /\ pc' = "typed"
    /\ UNCHANGED <<prog, uv, rcs, arena, finals, wit_len, consumed, values, ret, result, root>>

\* One iteration of type_check's first loop, on the next term t of the input
\* program; the iteration at position idx reads no term after position idx,
\* so the input is drawn as the loop reaches it.
TypeCheckNodeUpTo(n) ==
    /\ pc = "type_check"
    /\ Len(prog) < n
    /\ \E t \in TermsAt(Len(prog)) :
          \E node \in {UnificationArrow(Len(uv) + 1, Len(uv) + 2)} :
          \E r \in {constrain(uv \o <<free, free>>, Append(prog, t), rcs, Len(prog), node)} :
              /\ prog' = Append(prog, t)
              /\ IF r.err = "none"
                 THEN /\ uv' = r.uv
                      /\ rcs' = Append(rcs, node)
                      /\ UNCHANGED <<pc, result>>
                 ELSE /\ Stop(r.err)
                      /\ UNCHANGED <<uv, rcs>>
    /\ UNCHANGED <<arena, finals, wit_len, consumed, values, ret, root>>

TypeCheckNode == TypeCheckNodeUpTo(MaxLen)

TypeCheckNodeDeep == TypeCheckNodeUpTo(DeepLen)

\* The input program ends: type_check's second loop and its return.
Finalize ==
    /\ pc = "type_check"
    /\ Len(prog) > 0
    /\ \E d \in {finalize(uv, arena, rcs, <<>>, 0)} :
           IF d.err = "none"
           THEN /\ uv' = d.uv
                /\ arena' = d.arena
                /\ finals' = d.finals
                /\ pc' = "typed"
                /\ UNCHANGED result
           ELSE /\ Stop(d.err)
                /\ UNCHANGED <<uv, arena, finals>>
    /\ UNCHANGED <<prog, rcs, wit_len, consumed, values, ret, root>>

\* let _wit_len = match iter.next() ...: the iterator ends, yields 0, or
\* yields 1 and then the bits of a natural number.
ReadWitnessLength ==
    /\ pc = "typed"
    /\ \/ /\ Stop("EndOfStream")
          /\ UNCHANGED <<wit_len, consumed>>
       \/ /\ consumed < MaxStream
          /\ wit_len' = 0
          /\ consumed' = consumed + 1
          /\ pc' = "witness"
          /\ UNCHANGED result
       \/ /\ \E n \in 1..(MaxStream - consumed - 1) :
                \E bits \in BitSeqs(n) :
                    \E d \in {decode_natural(bits)} :
                        /\ d.ok
                        /\ d.rest = <<>>
                        /\ wit_len' = d.val
                        /\ consumed' = consumed + 1 + n
          /\ pc' = "witness"
          /\ UNCHANGED result
       \/ /\ consumed < MaxStream
          /\ Stop("EndOfStream")
          /\ consumed' = consumed + 1
          /\ UNCHANGED wit_len
    /\ UNCHANGED <<prog, uv, rcs, arena, finals, values, ret, root>>

\* The map over the typed nodes that reads the witness values.
ReadWitnesses ==
    /\ pc = "witness"
    /\ \E d \in read_witnesses(prog, finals, arena, <<>>, consumed, 0) :
          /\ values' = d.values
          /\ consumed' = d.consumed
          /\ IF d.err = "none"
             THEN pc' = "cached" /\ UNCHANGED result
             ELSE Stop(d.err)
    /\ UNCHANGED <<prog, uv, rcs, arena, finals, wit_len, ret, root>>

\* The loop that computes the cached data, and the return of the program.
ComputeCached ==
    /\ pc = "cached"
    /\ \E d \in {cached(prog, finals, arena, <<>>, 0)} :
           /\ ret' = d.ret
           /\ Stop(IF d.err = "none" THEN "Ok" ELSE d.err)
    /\ UNCHANGED <<prog, uv, rcs, arena, finals, wit_len, consumed, values, root>>

\* Program::root_node on the returned program.
RootNode ==
    /\ pc = "done"
    /\ result = "Ok"
    /\ pc' = "root"
    /\ root' = root_node(ret)
    /\ UNCHANGED <<prog, uv, rcs, arena, finals, wit_len, consumed, values, ret, result>>

Next ==
    \/ TypeCheckEmpty
    \/ TypeCheckNode
    \/ Finalize
    \/ ReadWitnessLength
    \/ ReadWitnesses
    \/ ComputeCached
    \/ RootNode

Spec == Init /\ [][Next]_vars

\* The same program on inputs of up to DeepLen terms.
NextDeep ==
    \/ TypeCheckEmpty
    \/ TypeCheckNodeDeep
    \/ Finalize
    \/ ReadWitnessLength
    \/ ReadWitnesses
    \/ ComputeCached
    \/ RootNode

SpecDeep == Init /\ [][NextDeep]_vars

\* ------------------------------------------------- the unification calls
\* The forest as the calls of UnificationVar::free, UnificationVar::concrete
\* and unify build it, one call a step, as type_check makes them.

InitUnify ==
    /\ prog = <<>>
    /\ pc = "unify"
    /\ uv = <<>>
    /\ rcs = <<>>
    /\ arena = <<>>
    /\ finals = <<>>
    /\ wit_len = 0
    /\ consumed = 0
    /\ values = <<>>
    /\ ret = <<>>
    /\ result = "running"
    /\ root = NoRoot

NewFree ==
    /\ pc = "unify"
    /\ Len(uv) < MaxVars
    /\ uv' = Alloc(uv, free)
    /\ UNCHANGED <<prog, pc, rcs, arena, finals, wit_len, consumed, values, ret, result, root>>

NewConcrete ==
    /\ pc = "unify"
    /\ Len(uv) < MaxVars
    /\ \E ty \in {TypeUnit} \cup {Type(c, a, b) : c \in {"Sum", "Product"},
                                                a \in DOMAIN uv, b \in DOMAIN uv} :
           uv' = Alloc(uv, concrete(ty))
    /\ UNCHANGED <<prog, pc, rcs, arena, finals, wit_len, consumed, values, ret, result, root>>

UnifyCall(alpha, beta) ==
    /\ pc = "unify"
    /\ \E d \in {unify(uv, alpha, beta)} :
           /\ uv' = d.uv
           /\ result' = IF d.err = "none" THEN "running" ELSE d.err
           /\ pc' = IF d.err = "none" THEN "unify" ELSE "failed"
    /\ UNCHANGED <<prog, rcs, arena, finals, wit_len, consumed, values, ret, root>>

Unify == \E alpha \in DOMAIN uv, beta \in DOMAIN uv : UnifyCall(alpha, beta)

NextUnify ==
    \/ NewFree
    \/ NewConcrete
    \/ Unify

SpecUnify == InitUnify /\ [][NextUnify]_vars

\* ------------------------------------------------- the widths of long programs
\* type_check on the programs <<Unit, leaf, Pair(1,1), Pair(2,2), ...>>: the
\* node at position k is a Pair whose two references are k - 1, at which
\* type_check finds the node before it (TcChild). From the third node on a
\* step is the node's iteration of both loops: its target is bound to the
\* Product of the child's target with itself (lines 476-483), and from_var
\* finds that child Finalized and adds its width to itself (lines 154-157).
\* bit_width is a usize: a word of Limbs limbs, the lowest first.

WideStart(leaf) ==
    LET program == <<Term("Unit", 0, 0), leaf>>
        n0 == UnificationArrow(Len(Skeleton) + 1, Len(Skeleton) + 2)
        n1 == UnificationArrow(Len(Skeleton) + 3, Len(Skeleton) + 4)
    IN  Eval(constrain(Skeleton \o <<free, free>>, program, <<>>, 0, n0), LAMBDA r0 :
        Eval(constrain(r0.uv \o <<free, free>>, program, <<n0>>, 1, n1), LAMBDA r1 :
             finalize(r1.uv, <<>>, <<n0, n1>>, <<>>, 0)))

InitWide ==
    \E leaf \in WideLeaves :
    \E d \in {WideStart(leaf)} :
        /\ prog = <<Term("Unit", 0, 0), leaf>>
        /\ pc = "type_check"
        /\ uv = d.uv
        /\ rcs = <<UnificationArrow(Len(Skeleton) + 1, Len(Skeleton) + 2),
                   UnificationArrow(Len(Skeleton) + 3, Len(Skeleton) + 4)>>
        /\ arena = [i \in DOMAIN d.arena |-> [d.arena[i] EXCEPT !.bit_width = ToWord(@)]]
        /\ finals = d.finals
        /\ wit_len = 0
        /\ consumed = 0
        /\ values = <<>>
        /\ ret = <<>>
        /\ result = "running"
        /\ root = NoRoot

\* The next Pair node: final1.bit_width + final2.bit_width in a usize. On a
\* sum that does not fit the word the addition panics where overflow is
\* checked and wraps where it is not.
WidePair ==
    /\ pc = "type_check"
    /\ Len(prog) < MaxWide
    /\ \E child \in {At(finals, TcChild(Len(prog), Len(prog) - 1))} :
       \E w \in {AddWord(arena[child.target_ty].bit_width, arena[child.target_ty].bit_width)} :
          /\ prog' = Append(prog, Term("Pair", Len(prog) - 1, Len(prog) - 1))
          /\ \/ /\ w.carry = 1
                /\ Stop("PanicOverflow")
                /\ UNCHANGED <<arena, finals>>
             \/ /\ arena' = Append(arena, FinalType("Product", child.target_ty,
                                                    child.target_ty, w.word))
                /\ finals' = Append(finals, TypedNode(child.source_ty, Len(arena) + 1))
                /\ UNCHANGED <<pc, result>>
    /\ UNCHANGED <<uv, rcs, wit_len, consumed, values, ret, root>>

\* The program ends: type_check returns Ok(finals).
WideAccept ==
    /\ pc = "type_check"
    /\ pc' = "typed"
    /\ UNCHANGED <<prog, uv, rcs, arena, finals, wit_len, consumed, values, ret, result, root>>

NextWide ==
    \/ WidePair
    \/ WideAccept

SpecWide == InitWide /\ [][NextWide]_vars

\* -------------------------------------------------------------- properties

\* type_check has returned Ok.
TypeCheckOk ==
    \/ pc \in {"typed", "witness", "cached", "root"}
    \/ pc = "done" /\ result \in {"Ok", "EndOfStream"}

Positions == 0..(Len(prog) - 1)

HasRefs(t) == t.op \in UnaryOps \cup BinaryOps

\* C1: type_check reads, for the payload i of the node at position idx, the
\* node at position idx - i, as compute_cmr does, and so no DAG whose
\* back-references are between 1 and idx makes it index out of range.
C1_ChildIsBackRef ==
    /\ result # "PanicIndex"
    /\ \A k \in Positions :
          /\ HasRefs(At(prog, k)) => TcChild(k, At(prog, k).i) = PnChild(k, At(prog, k).i)
          /\ At(prog, k).op \in BinaryOps =>
                TcChild(k, At(prog, k).j) = PnChild(k, At(prog, k).j)

\* Whether the node at position k is a Case whose two children, the nodes at
\* k - i and k - j, are both Hidden.
CaseOfTwoHidden(k) ==
    /\ At(prog, k).op = "Case"
    /\ At(prog, PnChild(k, At(prog, k).i)).op = "Hidden"
    /\ At(prog, PnChild(k, At(prog, k).j)).op = "Hidden"

\* C2: a program with a Case node whose two children are both Hidden is
\* rejected by type_check: type_check does not return Ok for it.
C2_TwoHiddenRejected ==
    (\E k \in Positions : CaseOfTwoHidden(k)) => ~TypeCheckOk

\* C3: a program with a Fail node ends with the error value UnsupportedFail,
\* never with a panic.
C3_FailIsAnError ==
    (pc = "done" /\ \E k \in Positions : At(prog, k).op = "Fail") =>
        result = "UnsupportedFail"

\* The number of bits read while decoding the Witness leaves.
RECURSIVE SumLen(_)
SumLen(vs) == IF vs = <<>> THEN 0 ELSE Len(Head(vs)) + SumLen(Tail(vs))

\* C4: an accepted program, of one node at least, has read for its Witness
\* leaves exactly as many bits as the witness-block length the stream declares.
C4_WitnessLengthConserved ==
    (result = "Ok" /\ Len(prog) > 0) => SumLen(values) = wit_len


\* The representative of v's class, the forest left as it is.
RECURSIVE RootOf(_, _)
RootOf(f, v) == IF f[v].var = "EqualTo" THEN RootOf(f, f[v].parent) ELSE v

\* The classes that are the children of the shape class c is bound to.
ChildClasses(f, c) ==
    IF f[c].var = "Bound" /\ f[c].ty # "Unit"
    THEN {RootOf(f, f[c].a), RootOf(f, f[c].b)}
    ELSE {}

\* The classes reached from those of S through the children of shapes.
RECURSIVE Reached(_, _)
Reached(f, S) ==
    Eval(S \cup UNION {ChildClasses(f, c) : c \in S},
         LAMBDA S2 : IF S2 = S THEN S ELSE Reached(f, S2))

\* Some class is bound to a shape from which that class is reached again.
Cyclic(f) ==
    \E c \in 1..Len(f) :
        /\ f[c].var = "Bound"
        /\ c \in Reached(f, ChildClasses(f, c))

\* The step in which type_check runs its second loop and returns.
FinalizeStep == pc = "type_check" /\ pc' # "type_check" /\ prog' = prog /\ Len(prog) > 0

\* C5: a program whose constraints leave a cyclic type, some class being
\* bound to a shape from which that class is reached again, is rejected with
\* OccursCheck by the finalization, and no typed DAG is returned.
C5_CyclicIsOccursCheck ==
    [][(FinalizeStep /\ Cyclic(uv)) => (pc' = "done" /\ result' = "OccursCheck")]_vars

\* C5's case: the finalization has met a cyclic type.
C5_Witness == pc = "done" /\ result = "OccursCheck" /\ Cyclic(uv)

\* Whether the types at arena positions a and b are the same type.
RECURSIVE TypeEq(_, _, _)
TypeEq(ar, a, b) ==
    \/ a = b
    \/ /\ ar[a].ty = ar[b].ty
       /\ ar[a].ty = "Unit" \/ (TypeEq(ar, ar[a].l, ar[b].l) /\ TypeEq(ar, ar[a].r, ar[b].r))

IsProduct(ar, t, l, r) == ar[t].ty = "Product" /\ TypeEq(ar, ar[t].l, l) /\ TypeEq(ar, ar[t].r, r)

\* Whether the type at arena position t is 2^(2^n).
RECURSIVE IsWord(_, _, _)
IsWord(ar, t, n) ==
    IF n = 0
    THEN ar[t].ty = "Sum" /\ ar[ar[t].l].ty = "Unit" /\ ar[ar[t].r].ty = "Unit"
    ELSE ar[t].ty = "Product" /\ IsWord(ar, ar[t].l, n - 1) /\ IsWord(ar, ar[t].r, n - 1)

\* The typing rule of the node at position k, its children being the nodes at
\* k - i and k - j, on the finalized types.
RuleHolds(k) ==
    LET t == At(prog, k)
        ar == arena
        src == At(finals, k).source_ty
        tgt == At(finals, k).target_ty
        ci == At(finals, PnChild(k, t.i))
        cj == At(finals, PnChild(k, t.j))
        hi == At(prog, PnChild(k, t.i)).op = "Hidden"
        hj == At(prog, PnChild(k, t.j)).op = "Hidden"
    IN  CASE t.op = "Iden" -> TypeEq(ar, src, tgt)
          [] t.op = "Unit" -> ar[tgt].ty = "Unit"
          [] t.op = "InjL" ->
                TypeEq(ar, src, ci.source_ty) /\ ar[tgt].ty = "Sum"
                /\ TypeEq(ar, ar[tgt].l, ci.target_ty)
          [] t.op = "InjR" ->
                TypeEq(ar, src, ci.source_ty) /\ ar[tgt].ty = "Sum"
                /\ TypeEq(ar, ar[tgt].r, ci.target_ty)
          [] t.op = "Take" ->
                TypeEq(ar, tgt, ci.target_ty) /\ ar[src].ty = "Product"
                /\ TypeEq(ar, ar[src].l, ci.source_ty)
          [] t.op = "Drop" ->
                TypeEq(ar, tgt, ci.target_ty) /\ ar[src].ty = "Product"
                /\ TypeEq(ar, ar[src].r, ci.source_ty)
          [] t.op = "Comp" ->
                /\ TypeEq(ar, src, ci.source_ty)
                /\ TypeEq(ar, ci.target_ty, cj.source_ty)
                /\ TypeEq(ar, tgt, cj.target_ty)
          [] t.op = "Pair" ->
                /\ TypeEq(ar, src, ci.source_ty)
                /\ TypeEq(ar, src, cj.source_ty)
                /\ IsProduct(ar, tgt, ci.target_ty, cj.target_ty)
          [] t.op = "Case" ->
                /\ ar[src].ty = "Product"
                /\ ar[ar[src].l].ty = "Sum"
                /\ hi \/ /\ IsProduct(ar, ci.source_ty, ar[ar[src].l].l, ar[src].r)
                         /\ TypeEq(ar, tgt, ci.target_ty)
                /\ hj \/ /\ IsProduct(ar, cj.source_ty, ar[ar[src].l].r, ar[src].r)
                         /\ TypeEq(ar, tgt, cj.target_ty)
          [] t.op = "Disconnect" ->
                /\ ar[ci.source_ty].ty = "Product"
                /\ IsWord(ar, ar[ci.source_ty].l, 8)
                /\ TypeEq(ar, ar[ci.source_ty].r, src)
                /\ ar[ci.target_ty].ty = "Product"
                /\ TypeEq(ar, ar[ci.target_ty].r, cj.source_ty)
                /\ IsProduct(ar, tgt, ar[ci.target_ty].l, cj.target_ty)
          [] OTHER -> TRUE

\* C6: in a program that type_check accepts, the finalized types of every
\* node satisfy the node's typing rule, its children being the nodes at
\* idx - i and idx - j.
C6_TypingRulesHold ==
    (TypeCheckOk /\ Len(finals) = Len(prog)) => \A k \in Positions : RuleHolds(k)


\* Variable-free types of depth at most one.
UnitTy == <<"Unit">>

SmallTypes == {UnitTy} \cup {<<c, UnitTy, UnitTy>> : c \in {"Sum", "Product"}}

\* Whether source s and target t satisfy the typing rule of the node at
\* position k of p, tp being the <<source, target>> of the nodes before k and
\* the children being the nodes at k - i and k - j.
SmallRule(p, tp, k, s, t) ==
    LET n == At(p, k)
        hasi == n.op \in UnaryOps \cup BinaryOps
        hasj == n.op \in BinaryOps
        ci == At(tp, PnChild(k, n.i))
        cj == At(tp, PnChild(k, n.j))
        hi == At(p, PnChild(k, n.i)).op = "Hidden"
        hj == At(p, PnChild(k, n.j)).op = "Hidden"
    IN  /\ hasi => InRange(tp, PnChild(k, n.i))
        /\ hasj => InRange(tp, PnChild(k, n.j))
        /\ CASE n.op = "Iden" -> s = t
             [] n.op = "Unit" -> t = UnitTy
             [] n.op = "InjL" -> s = ci[1] /\ t[1] = "Sum" /\ t[2] = ci[2]
             [] n.op = "InjR" -> s = ci[1] /\ t[1] = "Sum" /\ t[3] = ci[2]
             [] n.op = "Take" -> t = ci[2] /\ s[1] = "Product" /\ s[2] = ci[1]
             [] n.op = "Drop" -> t = ci[2] /\ s[1] = "Product" /\ s[3] = ci[1]
             [] n.op = "Comp" -> s = ci[1] /\ ci[2] = cj[1] /\ t = cj[2]
             [] n.op = "Pair" -> s = ci[1] /\ s = cj[1] /\ t = <<"Product", ci[2], cj[2]>>
             [] n.op \in {"Witness", "Hidden"} -> TRUE
             [] OTHER -> FALSE

\* Whether the typing tp of the first Len(tp) nodes of p extends to a typing
\* of all of p that satisfies every node's rule.
RECURSIVE HasTyping(_, _)
HasTyping(p, tp) ==
    \/ Len(tp) = Len(p)
    \/ \E s \in SmallTypes, t \in SmallTypes :
          /\ SmallRule(p, tp, Len(tp), s, t)
          /\ HasTyping(p, Append(tp, <<s, t>>))

\* C7: type_check rejects a DAG only when no valid typing exists: a program
\* it rejects with TypeCheck or OccursCheck has no assignment of variable-free
\* types that satisfies all typing rules.
C7_RejectsOnlyUntypable ==
    (pc = "done" /\ result \in {"TypeCheck", "OccursCheck"}) => ~HasTyping(prog, <<>>)

\* The arena ar holds variable-free types only: Unit, or a Sum or Product of
\* two types finalized before it.
VariableFree(ar) ==
    \A t \in 1..Len(ar) :
        /\ ar[t].ty \in {"Unit", "Sum", "Product"}
        /\ ar[t].ty # "Unit" => ar[t].l \in 1..(t - 1) /\ ar[t].r \in 1..(t - 1)

\* Whether the class of v is Free in the forest f.
IsFree(f, v) == f[RootOf(f, v)].var = "Free"

\* With f the forest before the finalization, g the forest and ar the arena
\* after it, and fs the typed nodes: every node has its two types in ar, and
\* what was Free in f is Unit in ar, as a node's type and as a shape's child.
FreeIsUnit(f, g, ar, fs) ==
    /\ Len(fs) = Len(prog)
    /\ \A k \in Positions :
          /\ At(fs, k).source_ty \in 1..Len(ar)
          /\ At(fs, k).target_ty \in 1..Len(ar)
          /\ IsFree(f, At(rcs, k).source) => ar[At(fs, k).source_ty] = FinalUnit
          /\ IsFree(f, At(rcs, k).target) => ar[At(fs, k).target_ty] = FinalUnit
    /\ \A c \in 1..Len(f) :
          (f[c].var = "Bound" /\ f[c].ty # "Unit" /\ g[c].var = "Finalized") =>
              /\ IsFree(f, f[c].a) => ar[ar[g[c].fin].l] = FinalUnit
              /\ IsFree(f, f[c].b) => ar[ar[g[c].fin].r] = FinalUnit

\* C8: when type_check returns Ok every node has a source and a target type
\* free of unification variables, and every class that was Free when the
\* finalization started is Unit, of width 0, wherever it occurs.
C8_FreeBecomesUnit ==
    [][(FinalizeStep /\ pc' = "typed") =>
          (VariableFree(arena') /\ FreeIsUnit(uv, uv', arena', finals'))]_vars

\* C8's case: an accepted program ends with an InjL, the right side of whose
\* target no rule constrains.
C8_Witness ==
    /\ pc = "typed"
    /\ Len(prog) > 1
    /\ At(prog, Len(prog) - 1).op = "InjL"
    /\ arena[arena[At(finals, Len(prog) - 1).target_ty].r] = FinalUnit

\* The CMRs that the loop over program computes, from position k on.
RECURSIVE cmrs(_, _, _)
cmrs(program, acc, k) ==
    IF k = Len(program) THEN acc
    ELSE cmrs(program, Append(acc, [cmr |-> compute_cmr(acc, At(program, k), k)]), k + 1)

\* The program with the node at position k replaced by Hidden(h).
WithHidden(program, k, h) == [program EXCEPT ![k + 1] = HiddenTerm(h)]

\* C9: replacing a node by a Hidden node that carries the node's CMR leaves
\* the CMR of every node of the program unchanged.
C9_CmrCompositional ==
    result = "Ok" =>
        \A k \in Positions :
            cmrs(WithHidden(prog, k, At(ret, k).cmr), <<>>, 0)
                = [m \in 1..Len(ret) |-> [cmr |-> ret[m].cmr]]

\* C9's case: a returned program has a node that references a node other
\* than a Hidden one.
C9_Witness ==
    /\ result = "Ok"
    /\ \E k \in Positions :
          /\ HasRefs(At(prog, k))
          /\ At(prog, PnChild(k, At(prog, k).i)).op \notin {"Hidden"}
          /\ At(ret, k).cmr.kids[1] = At(ret, PnChild(k, At(prog, k).i)).cmr

CellsOf(k) ==
    LET t == At(prog, k)
        ci == At(ret, PnChild(k, t.i))
        cj == At(ret, PnChild(k, t.j))
        larger == IF ci.extra_cells_bound >= cj.extra_cells_bound
                  THEN ci.extra_cells_bound ELSE cj.extra_cells_bound
    IN  CASE t.op \in {"Iden", "Unit", "Hidden", "Ext", "Jet"} -> 0
          [] t.op \in UnaryOps -> ci.extra_cells_bound
          [] t.op = "Comp" -> arena[ci.target_ty].bit_width + larger
          [] t.op \in {"Case", "Pair"} -> larger
          [] t.op = "Disconnect" ->
                arena[ci.source_ty].bit_width + arena[ci.target_ty].bit_width + larger
          [] t.op = "Witness" -> arena[At(ret, k).target_ty].bit_width

C12_RootIsLastNode ==
    pc = "root" =>
        /\ root.st = "Node"
        /\ root.index = Len(ret) - 1
        /\ Len(ret) = Len(prog)
        /\ \A k \in Positions : At(ret, k).index = k

\* The representatives of the forest.
Roots(f) == {v \in DOMAIN f : f[v].var # "EqualTo"}

SameClass(f, v, w) == RootOf(f, v) = RootOf(f, w)

\* The classes of x and y made one in the map m from classes to their names.
Merge(m, x, y) == [r \in DOMAIN m |-> IF m[r] = m[y] THEN m[x] ELSE m[r]]

\* Two classes of one name bound to the same constructor whose children are
\* not yet of one name.
Pending(f, m) ==
    {p \in (DOMAIN m) \X (DOMAIN m) :
        /\ m[p[1]] = m[p[2]]
        /\ f[p[1]].var = "Bound" /\ f[p[2]].var = "Bound"
        /\ f[p[1]].ty = f[p[2]].ty /\ f[p[1]].ty # "Unit"
        /\ \/ m[RootOf(f, f[p[1]].a)] # m[RootOf(f, f[p[2]].a)]
           \/ m[RootOf(f, f[p[1]].b)] # m[RootOf(f, f[p[2]].b)]}

\* The least identification of classes that contains m and identifies the
\* children of identified shapes, first with first and second with second.
RECURSIVE Close(_, _)
Close(f, m) ==
    IF Pending(f, m) = {} THEN m
    ELSE LET p == CHOOSE q \in Pending(f, m) : TRUE
         IN  Close(f, Merge(Merge(m, RootOf(f, f[p[1]].a), RootOf(f, f[p[2]].a)),
                            RootOf(f, f[p[1]].b), RootOf(f, f[p[2]].b)))

\* Identifying alpha with beta identifies, at the top or in some pair of
\* children, two shapes of different constructors.
Clash(f, alpha, beta) ==
    LET m == Close(f, Merge([r \in Roots(f) |-> r], RootOf(f, alpha), RootOf(f, beta)))
    IN  \E r1 \in Roots(f), r2 \in Roots(f) :
            /\ m[r1] = m[r2]
            /\ f[r1].var = "Bound" /\ f[r2].var = "Bound"
            /\ f[r1].ty # f[r2].ty

\* alpha and beta are of two classes, both bound.
TwoBound(f, alpha, beta) ==
    /\ ~SameClass(f, alpha, beta)
    /\ f[RootOf(f, alpha)].var = "Bound"
    /\ f[RootOf(f, beta)].var = "Bound"

\* From f to g the classes of alpha and beta became one and nothing else
\* changed: no other class was joined and no class changed what it is bound to.
OnlyJoined(f, g, alpha, beta) ==
    /\ \A v \in DOMAIN f, w \in DOMAIN f :
          SameClass(g, v, w) <=>
              \/ SameClass(f, v, w)
              \/ /\ SameClass(f, v, alpha) \/ SameClass(f, v, beta)
                 /\ SameClass(f, w, alpha) \/ SameClass(f, w, beta)
    /\ \A v \in DOMAIN f :
          /\ g[RootOf(g, v)].var = "Bound"
          /\ f[RootOf(f, v)].var = "Bound"
          => g[RootOf(g, v)].ty = f[RootOf(f, v)].ty

\* What unify(alpha, beta) has to do on two bound classes.
UnifyOfBound(alpha, beta) ==
    LET x == uv[RootOf(uv, alpha)]
        y == uv[RootOf(uv, beta)]
    IN  /\ result' \in {"running", "TypeCheck"}
        /\ result' = "TypeCheck" <=> Clash(uv, alpha, beta)
        /\ (result' = "running" /\ x.ty # "Unit") =>
              /\ SameClass(uv', alpha, beta)
              /\ SameClass(uv', x.a, y.a)
              /\ SameClass(uv', x.b, y.b)
        /\ (x.ty = "Unit" /\ y.ty = "Unit") =>
              /\ result' = "running"
              /\ OnlyJoined(uv, uv', alpha, beta)

\* C13: unify on two classes that are both bound fails with TypeCheck exactly
\* when two different constructors meet at the top or in some pair of
\* children the recursion reaches; on equal constructors it unifies the first
\* children and the second children; Unit with Unit succeeds and changes
\* nothing but the join of the two classes.
C13_UnifyOfBoundClasses ==
    [][\A alpha \in DOMAIN uv, beta \in DOMAIN uv :
          (UnifyCall(alpha, beta) /\ TwoBound(uv, alpha, beta))
              => UnifyOfBound(alpha, beta)]_vars

\* A unify of two bound classes failed below the top: two classes bound to
\* compound shapes of one constructor were joined, and the call ended in
\* TypeCheck on a pair of their children.
C13_Witness ==
    /\ pc = "failed"
    /\ result = "TypeCheck"
    /\ \E v \in DOMAIN uv, w \in DOMAIN uv, x \in DOMAIN uv :
          /\ uv[v].var = "EqualTo" /\ uv[v].parent = w
          /\ uv[w].var = "Bound" /\ uv[w].ty # "Unit"
          /\ x \notin {v, w} /\ uv[x].var = "EqualTo"

\* C14: on a program without Fail whose references are in range no
\* unreachable!() of bind, unify or FinalType::from_var is executed: bind
\* gets a representative, never a variable that is EqualTo or Finalized,
\* unify meets no Finalized variable, and from_var meets no EqualTo root.
C14_NoUnreachable == result # "PanicUnreachable"

\* An accepted program with a node of two children, after unify joined
\* classes and from_var finalized the class a joined variable belongs to.
C14_Witness ==
    /\ result = "Ok"
    /\ \E k \in Positions : At(prog, k).op \in BinaryOps
    /\ \E v \in DOMAIN uv :
          /\ uv[v].var = "EqualTo"
          /\ uv[RootOf(uv, v)].var = "Finalized"

\* Every variable that is EqualTo(parent) has a smaller rank than its parent.
RankOrdered(f) ==
    \A v \in DOMAIN f :
        f[v].var = "EqualTo" => f[v].rank < f[f[v].parent].rank

\* C15: in every forest that unify, bind and find_root leave, a variable
\* that is EqualTo(parent) has a rank strictly smaller than its parent's, also
\* after find_root has re-pointed nodes to their grandparents; find_root
\* returns the one representative of the class, which is not EqualTo, and
\* changes the representative of no variable.
C15_RanksGrowToTheRoot ==
    /\ RankOrdered(uv)
    /\ \A n \in DOMAIN uv :
          /\ RankOrdered(find_root(uv, n).uv)
          /\ find_root(uv, n).root = RootOf(uv, n)
          /\ uv[RootOf(uv, n)].var # "EqualTo"
          /\ \A v \in DOMAIN uv : RootOf(find_root(uv, n).uv, v) = RootOf(uv, v)

\* A class of four variables whose three others all point at the
\* representative: union by rank alone leaves a chain of two links in a class
\* of rank 2, so find_root has re-pointed a node to its grandparent.
C15_Witness ==
    \E r \in DOMAIN uv :
        /\ uv[r].var # "EqualTo"
        /\ uv[r].rank = 2
        /\ Cardinality({v \in DOMAIN uv : uv[v].var = "EqualTo" /\ uv[v].parent = r}) = 3

\* The most calls a unify on f can make: a call that does not return at once
\* joins two classes, which can happen once less than there are classes, and
\* makes two further calls.
CallBound(f) == 2 * Cardinality(Roots(f)) - 1

\* The class of representative c is bound to a shape that reaches c again.
CyclicClass(f, c) ==
    /\ f[c].var = "Bound"
    /\ c \in Reached(f, ChildClasses(f, c))

\* C16: unify terminates on every pair of variables of every forest the
\* calls leave, cyclic shapes included: it makes at most CallBound calls,
\* since a call returns at once on one class or joins two classes before it
\* recurses; the counted run is the run of unify.
C16_UnifyTerminates ==
    pc = "unify" =>
        \A alpha \in DOMAIN uv, beta \in DOMAIN uv :
            /\ unify_calls(uv, alpha, beta, CallBound(uv) + 1).err # "Diverged"
            /\ unify_calls(uv, alpha, beta, CallBound(uv) + 1).calls <= CallBound(uv)
            /\ unify_calls(uv, alpha, beta, CallBound(uv) + 1).uv = unify(uv, alpha, beta).uv
            /\ unify_calls(uv, alpha, beta, CallBound(uv) + 1).err = unify(uv, alpha, beta).err

\* Two classes, each bound to a shape that reaches the class again, on which
\* unify recurses through bind and returns.
C16_Witness ==
    /\ pc = "unify"
    /\ \E c \in Roots(uv), d \in Roots(uv) :
          /\ c # d
          /\ CyclicClass(uv, c) /\ CyclicClass(uv, d)
          /\ unify_calls(uv, c, d, CallBound(uv) + 1).err = "none"
          /\ unify_calls(uv, c, d, CallBound(uv) + 1).calls >= 3

\* Every shape that from_var visited is stored as Finalized, and every
\* compound type of the arena is the type of one class.
FinalizedOnce(f, ar) ==
    /\ \A v \in DOMAIN f : f[v].var = "Bound" => ~f[v].occ
    /\ \A i \in DOMAIN ar :
          ar[i].ty # "Unit" =>
              Cardinality({v \in DOMAIN f : f[v].var = "Finalized" /\ f[v].fin = i}) = 1

\* C17: a program whose unified type graph is acyclic is never rejected with
\* OccursCheck, however often a class is reached: each shape is finalized
\* once, stored as Finalized, and returned on every later visit.
C17_AcyclicIsNotOccursCheck ==
    [][(FinalizeStep /\ ~Cyclic(uv)) =>
          /\ result' # "OccursCheck"
          /\ pc' = "typed" => FinalizedOnce(uv', arena')]_vars

\* An accepted program with a leaf of a word type, whose skeleton has two
\* identical children, and a node whose two children are the same node.
C17_Witness ==
    /\ pc = "typed"
    /\ \E k \in Positions : At(prog, k).op \in {"Jet", "Ext"}
    /\ \E k \in Positions : At(prog, k).op \in BinaryOps /\ At(prog, k).i = At(prog, k).j
    /\ FinalizedOnce(uv, arena)

\* enum TypeName
TypeName ==
    {"One", "Word32", "SWord32", "TwoTimesWord32", "Word64", "SWord64",
     "Word64TimesTwo", "Word128", "Word256", "SWord256", "Word256Word32",
     "SWord256Word32", "Word256Word512"}

\* The bits of the skeleton variables two_0 .. two_512, in their order.
SkeletonBits == <<0, 1, 2, 4, 8, 16, 32, 64, 128, 256, 288, 512>>

\* What a name stands for: the constructor and the bits of its two parts.
NameShape(name) ==
    CASE name = "One" -> [ty |-> "Unit", l |-> 0, r |-> 0]
      [] name = "Word32" -> [ty |-> "Product", l |-> 16, r |-> 16]
      [] name = "SWord32" -> [ty |-> "Sum", l |-> 0, r |-> 32]
      [] name = "TwoTimesWord32" -> [ty |-> "Product", l |-> 1, r |-> 32]
      [] name = "Word64" -> [ty |-> "Product", l |-> 32, r |-> 32]
      [] name = "SWord64" -> [ty |-> "Sum", l |-> 0, r |-> 64]
      [] name = "Word64TimesTwo" -> [ty |-> "Product", l |-> 64, r |-> 1]
      [] name = "Word128" -> [ty |-> "Product", l |-> 64, r |-> 64]
      [] name = "Word256" -> [ty |-> "Product", l |-> 128, r |-> 128]
      [] name = "SWord256" -> [ty |-> "Sum", l |-> 0, r |-> 256]
      [] name = "Word256Word32" -> [ty |-> "Product", l |-> 256, r |-> 32]
      [] name = "SWord256Word32" -> [ty |-> "Sum", l |-> 0, r |-> 288]
      [] name = "Word256Word512" -> [ty |-> "Product", l |-> 256, r |-> 512]

\* The type at arena position t is the type of n bits: Unit for none,
\* Sum(Unit, Unit) for one, a word of 256 bits with one of 32 for 288, and
\* two halves for a power of two; its width is n.
RECURSIVE IsBits(_, _, _)
IsBits(ar, t, n) ==
    /\ ar[t].bit_width = n
    /\ CASE n = 0 -> ar[t].ty = "Unit"
         [] n = 1 -> /\ ar[t].ty = "Sum"
                     /\ ar[ar[t].l].ty = "Unit" /\ ar[ar[t].r].ty = "Unit"
         [] n = 288 -> /\ ar[t].ty = "Product"
                       /\ IsBits(ar, ar[t].l, 256) /\ IsBits(ar, ar[t].r, 32)
         [] OTHER -> /\ ar[t].ty = "Product"
                     /\ IsBits(ar, ar[t].l, n \div 2)
                     /\ ar[t].r = ar[t].l \/ IsBits(ar, ar[t].r, n \div 2)

\* The type at arena position t is the type the name stands for.
IsNamed(ar, t, name) ==
    /\ ar[t].ty = NameShape(name).ty
    /\ ar[t].ty # "Unit" =>
          /\ IsBits(ar, ar[t].l, NameShape(name).l)
          /\ IsBits(ar, ar[t].r, NameShape(name).r)
    /\ ar[t].bit_width =
          CASE ar[t].ty = "Unit" -> 0
            [] ar[t].ty = "Sum" -> 1 + Max(NameShape(name).l, NameShape(name).r)
            [] OTHER -> NameShape(name).l + NameShape(name).r

\* The type a variable bound to type_from_name(name) is finalized to in the
\* forest f: its position in the arena the finalization leaves.
NamedFinal(f, ar, name) == from_var(Alloc(f, concrete(type_from_name(name))), ar, Len(f) + 1)

\* C18: in an accepted program the skeleton variables keep their ground
\* structure: each one that is finalized is the type of its bits, each Ext
\* or Jet leaf has the types its names stand for, and so does a variable
\* bound to any other name (Word32 of width 32, SWord32 of width 33, Word256
\* of width 256, Word256Word512 of width 768).
C18_SkeletonIsGround ==
    pc = "typed" =>
        /\ \A s \in DOMAIN SkeletonBits :
              uv[RootOf(uv, s)].var = "Finalized"
                  => IsBits(arena, uv[RootOf(uv, s)].fin, SkeletonBits[s])
        /\ \A k \in Positions :
              At(prog, k).op \in {"Ext", "Jet"} =>
                  /\ IsNamed(arena, At(finals, k).source_ty, At(prog, k).src)
                  /\ IsNamed(arena, At(finals, k).target_ty, At(prog, k).tgt)
        /\ \A name \in TypeName :
              /\ NamedFinal(uv, arena, name).err = "none"
              /\ IsNamed(NamedFinal(uv, arena, name).arena,
                         NamedFinal(uv, arena, name).fin, name)

\* An accepted program in which a Jet of Word32 is the child of another
\* node, so that the skeleton was unified with that node's types.
C18_Witness ==
    /\ pc = "typed"
    /\ \E k \in Positions, c \in Positions :
          /\ At(prog, c).op = "Jet"
          /\ HasRefs(At(prog, k))
          /\ c \in {PnChild(k, At(prog, k).i), PnChild(k, At(prog, k).j)}
          /\ At(prog, k).i = TcChild(k, At(prog, k).i)
          /\ arena[At(finals, c).source_ty].bit_width = 32
          /\ arena[At(finals, c).target_ty].bit_width = 33

\* C19: every bit_width that from_var computes stays within the machine
\* word, whatever the length of the program: no addition of two widths
\* panics on overflow, and none wraps, so that the width of every Product is
\* the sum of the widths of its two parts.
C19_WidthsFitTheWord ==
    /\ result # "PanicOverflow"
    /\ \A t \in DOMAIN arena :
          (arena[t].ty = "Product" /\ DOMAIN arena[t].bit_width = 1..Limbs) =>
              AddWord(arena[arena[t].l].bit_width, arena[arena[t].r].bit_width).carry = 0

====
